---- MODULE Spec2Model ----
(***************************************************************************)
(* Lineage-tree layout of napari-arboretum: layout_tree and _find_merges   *)
(* of src/napari_arboretum/tree.py, and the draw_tree / plot_branches      *)
(* handlers of napari_arboretum/visualisation/base_plotter.py.             *)
(*                                                                         *)
(* Lane and label coordinates are numpy floats in the program; they are    *)
(* modelled as exact rationals <<numerator, denominator>> in lowest terms. *)
(* Python's None is modelled by the sentinels NoneId and NoneNode.         *)
(* Python indexes from 0, the sequences here from 1.                       *)
(***************************************************************************)
EXTENDS Integers, Sequences, FiniteSets, TLC

VARIABLES nodes, n_roots, track_id, pc, queue, marked, y_pos, max_depth_mod,
          merges, edges, annotations, hidx, aidx, WHITE, calls,
          prev_edges, prev_annotations, colormap, color_by

vars == <<nodes, n_roots, track_id, pc, queue, marked, y_pos, max_depth_mod,
          merges, edges, annotations, hidx, aidx, WHITE, calls,
          prev_edges, prev_annotations, colormap, color_by>>

\* the attributes of the tracks layer the branch colours are computed from
layer == <<colormap, color_by>>

(***************************************************************************)
(* Bounds of the model.                                                    *)
(***************************************************************************)
MaxNodes == 4

MaxCalls == 2

(***************************************************************************)
(* Program constants.                                                      *)
(***************************************************************************)
MIN_OUT_EDGES == 1

SINGLE_ROOT_DEPTH_MOD == 8

ROOT_SPREAD_BASE == 10

(***************************************************************************)
(* Exact rational arithmetic standing for the float arithmetic.            *)
(***************************************************************************)
Abs(a) == IF a < 0 THEN -a ELSE a

RECURSIVE GCD(_, _)
GCD(a, b) == IF b = 0 THEN a ELSE GCD(b, a % b)

Rat(n, d) ==
    LET g == GCD(Abs(n), Abs(d))
        s == IF d < 0 THEN -1 ELSE 1
    IN  <<(s * n) \div g, (s * d) \div g>>

RInt(n) == <<n, 1>>

RAdd(a, b) == Rat(a[1] * b[2] + b[1] * a[2], a[2] * b[2])

RSub(a, b) == Rat(a[1] * b[2] - b[1] * a[2], a[2] * b[2])

RMul(a, b) == Rat(a[1] * b[1], a[2] * b[2])

RDiv(a, b) == Rat(a[1] * b[2], a[2] * b[1])

RNeg(a) == <<-a[1], a[2]>>

RECURSIVE Pow(_, _)
Pow(b, e) == IF e = 0 THEN 1 ELSE b * Pow(b, e - 1)

RECURSIVE RSum(_)
RSum(s) == IF s = <<>> THEN RInt(0) ELSE RAdd(Head(s), RSum(Tail(s)))

mean(s) == RDiv(RSum(s), RInt(Len(s)))

\* np.linspace(start, stop, num): num evenly spaced samples, endpoints included
linspace(start, stop, num) ==
    IF num = 1 THEN <<start>>
    ELSE [i \in 1..num |->
            RAdd(start, RMul(RInt(i - 1),
                             RDiv(RSub(stop, start), RInt(num - 1))))]

RECURSIVE Max(_)
Max(S) == LET x == CHOOSE x \in S : TRUE
          IN  IF S = {x} THEN x
              ELSE LET m == Max(S \ {x}) IN IF x > m THEN x ELSE m

RECURSIVE Digits(_)
Digits(n) == IF n < 10 THEN <<n>> ELSE Append(Digits(n \div 10), n % 10)

\* str(int): the decimal digits of a non-negative identity
str(n) == Digits(n)

Range(s) == {s[i] : i \in DOMAIN s}

(***************************************************************************)
(* Records.                                                                *)
(***************************************************************************)
NoneId == -1

TreeNode(ID, t, generation, children, is_root) ==
    [ID |-> ID, t |-> t, generation |-> generation, children |-> children,
     is_root |-> is_root, is_leaf |-> (children = <<>>)]

NoneNode == [ID |-> NoneId, t |-> <<>>, generation |-> 0, children |-> <<>>,
             is_root |-> FALSE, is_leaf |-> FALSE]

\* the module-level array every default colour refers to
WHITE_INIT == <<RInt(1), RInt(1), RInt(1), RInt(1)>>

\* a colour attribute holds a reference: to the module-level WHITE (the
\* dataclass default, one object for every record) or to an array of its own
WhiteRef == [ref |-> "WHITE", rgba |-> <<>>]

OwnColor(rgba) == [ref |-> "own", rgba |-> rgba]

\* Edge(x, y, color=WHITE, track_id=None, node=None)
Edge(x, y, tid, node) ==
    [x |-> x, y |-> y, color |-> WhiteRef, track_id |-> tid, node |-> node]

\* Annotation(x, y, label, color=WHITE); kind records the appending statement
Annotation(x, y, label, kind) ==
    [x |-> x, y |-> y, label |-> label, color |-> WhiteRef, kind |-> kind]

(***************************************************************************)
(* Inputs: the node lists the Graph Builder hands to the layout.  Node i   *)
(* of the list has identity IdOf(i); child links go to later positions, so *)
(* the graph is acyclic and every non-root is reachable from a root.       *)
(***************************************************************************)
IdBase == 10

IdOf(i) == IdBase + i

DanglingId == 99

TimeStep == 3

RECURSIVE SortedSeq(_)
SortedSeq(S) ==
    IF S = {} THEN <<>>
    ELSE LET m == CHOOSE x \in S : \A z \in S : x <= z
         IN  <<m>> \o SortedSeq(S \ {m})

Reverse(s) == [i \in 1..Len(s) |-> s[Len(s) + 1 - i]]

ParentsOf(kids, i) == {j \in DOMAIN kids : i \in kids[j]}

RootsOf(kids) == {i \in DOMAIN kids : ParentsOf(kids, i) = {}}

\* generation: depth of the node below the roots (roots have generation 0)
RECURSIVE GenerationOf(_, _)
GenerationOf(kids, i) ==
    IF ParentsOf(kids, i) = {} THEN 0
    ELSE 1 + Max({GenerationOf(kids, j) : j \in ParentsOf(kids, i)})

\* time samples: a node starts TimeStep after its parents' start and has
\* three samples at odd positions and two at even ones
SamplesOf(kids, i) ==
    LET t0 == TimeStep * GenerationOf(kids, i)
        n  == IF i % 2 = 1 THEN 3 ELSE 2
    IN  [k \in 1..n |-> t0 + k - 1]

ChildIds(kids, i, rev, dangling) ==
    LET asc == [k \in 1..Cardinality(kids[i]) |-> IdOf(SortedSeq(kids[i])[k])]
        ord == IF rev THEN Reverse(asc) ELSE asc
    IN  IF dangling = i THEN Append(ord, DanglingId) ELSE ord

BuildNodes(kids, rev, dangling) ==
    [i \in DOMAIN kids |->
        TreeNode(IdOf(i), SamplesOf(kids, i), GenerationOf(kids, i),
                 ChildIds(kids, i, rev, dangling), ParentsOf(kids, i) = {})]

\* child relations over n positions whose roots are exactly a prefix
Shapes(n) ==
    LET Links   == {p \in (1..n) \X (1..n) : p[1] < p[2]}
        Kids(E) == [i \in 1..n |-> {j \in 1..n : <<i, j>> \in E}]
    IN  {kids \in {Kids(E) : E \in SUBSET Links} :
            RootsOf(kids) = 1..Cardinality(RootsOf(kids))}

\* well-formed calls: n_roots is the number of roots
WellFormedInputs ==
    {[nodes |-> BuildNodes(kids, rev, 0), n_roots |-> Cardinality(RootsOf(kids))] :
        <<kids, rev>> \in UNION {Shapes(n) \X BOOLEAN : n \in 1..MaxNodes}}

\* calls with a child identity that matches no node
DanglingInputs ==
    {[nodes |-> BuildNodes(x[1], FALSE, x[2]), n_roots |-> Cardinality(RootsOf(x[1]))] :
        x \in UNION {Shapes(n) \X (1..n) : n \in 1..MaxNodes}}

\* calls whose n_roots exceeds the number of nodes
SurplusRootInputs ==
    {[nodes |-> BuildNodes(kids, FALSE, 0), n_roots |-> Len(kids) + 1] :
        kids \in UNION {Shapes(n) : n \in 1..MaxNodes}}

\* calls whose last root stands behind a non-root in the node list
Swap(s, i, j) == [k \in DOMAIN s |-> IF k = i THEN s[j] ELSE IF k = j THEN s[i] ELSE s[k]]

MisorderedInputs ==
    {[nodes |-> Swap(BuildNodes(kids, FALSE, 0),
                     Cardinality(RootsOf(kids)), Cardinality(RootsOf(kids)) + 1),
      n_roots |-> Cardinality(RootsOf(kids))] :
        kids \in {k \in UNION {Shapes(n) : n \in 1..MaxNodes} :
                    Cardinality(RootsOf(k)) >= 2 /\ Cardinality(RootsOf(k)) < Len(k)}}

\* a root with a 3-way split whose first two children split again
ThreeWaySplitInput ==
    LET kids == [i \in 1..8 |-> IF i = 1 THEN {2, 3, 4}
                                ELSE IF i = 2 THEN {5, 6}
                                ELSE IF i = 3 THEN {7, 8} ELSE {}]
    IN  [nodes |-> BuildNodes(kids, FALSE, 0), n_roots |-> 1]

EmptyInput == [nodes |-> <<>>, n_roots |-> 1]

Inputs ==
    WellFormedInputs \cup DanglingInputs \cup SurplusRootInputs
        \cup MisorderedInputs \cup {ThreeWaySplitInput, EmptyInput}

(***************************************************************************)
(* _find_merges                                                            *)
(***************************************************************************)
\* Counter(chain(children))[id]: occurrences of id over all child lists
ChildCount(ns, id) ==
    LET occ(n) == Cardinality({k \in DOMAIN n.children : n.children[k] = id})
        F[i \in 0..Len(ns)] == IF i = 0 THEN 0 ELSE F[i - 1] + occ(ns[i])
    IN  F[Len(ns)]

AllChildIds(ns) == UNION {Range(ns[i].children) : i \in DOMAIN ns}

IsMergeCount(count) == count > 1

\* mutant: only nodes with more than one child are taken as merge-parents
IsCandidateParentStrict(n) == Len(n.children) > 1

IsCandidateParent(n) == Len(n.children) >= 1

find_merges(ns) ==
    LET ms      == {id \in AllChildIds(ns) : IsMergeCount(ChildCount(ns, id))}
        parents == SelectSeq(ns, IsCandidateParent)
    IN  [m \in ms |->
            LET has(p) == m \in Range(p.children) IN SelectSeq(parents, has)]

(***************************************************************************)
(* layout_tree                                                             *)
(***************************************************************************)
\* nodes[:n_roots]: a new list holding the first n_roots nodes (all of them
\* when n_roots exceeds the length)
RootSlice(ns, n) == SubSeq(ns, 1, IF n < Len(ns) THEN n ELSE Len(ns))

\* mutant: the queue is the caller's list itself, so the pop removes from it
NodesAfterPopAliased(ns) == IF ns = <<>> THEN ns ELSE Tail(ns)

\* queue.pop(0) works on the slice, a copy: the caller's list keeps its nodes
NodesAfterPop(ns) == ns

\* marked = [root[0]]
InitMarked(root) == <<root[1]>>

\* y_pos = list(np.linspace(0, (10*n_roots)**n_gen, n_roots))
InitYPos(ns, n) ==
    LET n_gen == Max({ns[i].generation : i \in DOMAIN ns})
    IN  linspace(RInt(0), RInt(Pow(ROOT_SPREAD_BASE * n, n_gen)), n)

\* max_depth_mod: (root_dist / 2) - (root_dist / 10), or 8 for a single root
MaxDepthMod(ypos, n) ==
    IF n > 1
    THEN LET root_dist == RSub(ypos[2], ypos[1])
         IN  RSub(RDiv(root_dist, RInt(2)), RDiv(root_dist, RInt(ROOT_SPREAD_BASE)))
    ELSE RInt(SINGLE_ROOT_DEPTH_MOD)

\* mutant: the children are resolved in the order of the node's child list
ResolveChildrenInChildOrder(ns, node) ==
    LET known(id) == \E i \in DOMAIN ns : ns[i].ID = id
        ids       == SelectSeq(node.children, known)
    IN  [k \in DOMAIN ids |-> ns[CHOOSE i \in DOMAIN ns : ns[i].ID = ids[k]]]

\* children = [t for t in nodes if t.ID in node.children]
ResolveChildren(ns, node) ==
    LET isChild(t) == t.ID \in Range(node.children) IN SelectSeq(ns, isChild)

\* mutant: the depth modifier of the commented-out line 119, halved once more
SpreadOffsetsHalved(mdm, node, k) ==
    LET depth_mod == RDiv(mdm, RInt(2 * Pow(2, node.generation)))
        spacing   == linspace(RNeg(depth_mod), depth_mod, k)
    IN  IF k > 1 THEN spacing ELSE <<RInt(0)>>

\* depth_mod = max_depth_mod / 2.0**generation; spacing; y_mod
SpreadOffsets(mdm, node, k) ==
    LET depth_mod == RDiv(mdm, RInt(Pow(2, node.generation)))
        spacing   == linspace(RNeg(depth_mod), depth_mod, k)
    IN  IF k > 1 THEN spacing ELSE <<RInt(0)>>

\* parent_edges = [e for e in edges if e.node in parents]
ParentEdges(es, parents) ==
    LET isParent(e) == e.node \in Range(parents) IN SelectSeq(es, isParent)

\* mutant: the mean lane is used as the offset without subtracting y
MergeOffsetAbsolute(parent_edges, y) ==
    <<mean([i \in DOMAIN parent_edges |-> parent_edges[i].y[1]])>>

\* np.asarray([np.mean([e.y[0] for e in parent_edges]) - y])
MergeOffset(parent_edges, y) ==
    <<RSub(mean([i \in DOMAIN parent_edges |-> parent_edges[i].y[1]]), y)>>

\* the skip test of a merge child: len(parent_edges) < MIN_OUT_EDGES
SkipMerge(parent_edges) == Len(parent_edges) < MIN_OUT_EDGES

\* mutant: the marked list is not consulted
NotMarkedUnchecked(child, mk) == TRUE

\* child not in marked
NotMarked(child, mk) == child \notin Range(mk)

\* y + (y_mod[0] if len(y_mod) < idx+1 else y_mod[idx]), idx counted from 1 here
ChildLane(y, y_mod, idx) ==
    RAdd(y, IF Len(y_mod) < idx THEN y_mod[1] ELSE y_mod[idx])

\* child.t[-1] - (child.t[-1] - child.t[0]) / 2.0
MidTime(t) == RSub(RInt(t[Len(t)]), RDiv(RInt(t[Len(t)] - t[1]), RInt(2)))

\* mutant: the midpoint annotation is emitted for a leaf child as well
ChildAnnotationsAlways(child, lane) ==
    <<Annotation(MidTime(child.t), lane, str(child.ID), "mid")>>

\* annotate an enqueued child unless it is a leaf
ChildAnnotations(child, lane) ==
    IF ~child.is_leaf
    THEN <<Annotation(MidTime(child.t), lane, str(child.ID), "mid")>>
    ELSE <<>>

\* the loop over enumerate(children); st holds marked, queue, y_pos,
\* annotations and y_mod as the loop body updates them
RECURSIVE ChildLoop(_, _, _, _, _, _)
ChildLoop(children, idx, y, es, mg, st) ==
    IF idx > Len(children) THEN st
    ELSE
      LET child        == children[idx]
          isMerge      == child.ID \in DOMAIN mg
          parent_edges == IF isMerge THEN ParentEdges(es, mg[child.ID]) ELSE <<>>
      IN  IF isMerge /\ SkipMerge(parent_edges)
          THEN ChildLoop(children, idx + 1, y, es, mg, st)
          ELSE
            LET y_mod == IF isMerge THEN MergeOffset(parent_edges, y) ELSE st.y_mod
                lane  == ChildLane(y, y_mod, idx)
                st1   == IF NotMarked(child, st.marked)
                         THEN [marked      |-> Append(st.marked, child),
                               queue       |-> Append(st.queue, child),
                               y_pos       |-> Append(st.y_pos, lane),
                               annotations |-> st.annotations \o ChildAnnotations(child, lane),
                               y_mod       |-> y_mod]
                         ELSE [st EXCEPT !.y_mod = y_mod]
            IN  ChildLoop(children, idx + 1, y, es, mg, st1)

\* mutant: the main edge is built without its track identity
MainEdgeNoTrack(node, y) ==
    Edge(<<node.t[1], node.t[Len(node.t)]>>, <<y, y>>, NoneId, node)

\* the main edge of a dequeued node
MainEdge(node, y) ==
    Edge(<<node.t[1], node.t[Len(node.t)]>>, <<y, y>>, node.ID, node)

\* mutant: the start annotation is put at the last time sample
RootAnnotationsAtEnd(node, y) ==
    IF node.is_root
    THEN <<Annotation(RInt(node.t[Len(node.t)]), y, str(node.ID), "root")>>
    ELSE <<>>

\* if node.is_root: annotate the start
RootAnnotations(node, y) ==
    IF node.is_root
    THEN <<Annotation(RInt(node.t[1]), y, str(node.ID), "root")>>
    ELSE <<>>

\* mutant: the end annotation is put at the first time sample
LeafAnnotationsAtStart(node, y) ==
    IF node.is_leaf
    THEN <<Annotation(RInt(node.t[1]), y, str(node.ID), "leaf")>>
    ELSE <<>>

\* if node.is_leaf: annotate the end
LeafAnnotations(node, y) ==
    IF node.is_leaf
    THEN <<Annotation(RInt(node.t[Len(node.t)]), y, str(node.ID), "leaf")>>
    ELSE <<>>

Init ==
    /\ colormap = "turbo"
    /\ color_by = "track_id"
    /\ \E inp \in Inputs : nodes = inp.nodes /\ n_roots = inp.n_roots
    /\ track_id = NoneId
    /\ pc = "call"
    /\ queue = <<>>
    /\ marked = <<>>
    /\ y_pos = <<>>
    /\ max_depth_mod = RInt(0)
    /\ merges = <<>>
    /\ edges = <<>>
    /\ annotations = <<>>
    /\ hidx = 1
    /\ aidx = 1
    /\ WHITE = WHITE_INIT
    /\ calls = 0
    /\ prev_edges = <<>>
    /\ prev_annotations = <<>>

\* lines 77-79 on an empty node list: max() of an empty list raises
Raise ==
    /\ UNCHANGED layer
    /\ pc = "call"
    /\ nodes = <<>>
    /\ pc' = "error"
    /\ UNCHANGED <<nodes, n_roots, track_id, queue, marked, y_pos, max_depth_mod,
                   merges, edges, annotations, hidx, aidx, WHITE, calls,
                   prev_edges, prev_annotations>>

\* lines 77-94: the set-up of the traversal
Call ==
    /\ UNCHANGED layer
    /\ pc = "call"
    /\ nodes # <<>>
    /\ queue' = RootSlice(nodes, n_roots)
    /\ marked' = InitMarked(RootSlice(nodes, n_roots))
    /\ y_pos' = InitYPos(nodes, n_roots)
    /\ max_depth_mod' = MaxDepthMod(InitYPos(nodes, n_roots), n_roots)
    /\ edges' = <<>>
    /\ annotations' = <<>>
    /\ merges' = find_merges(nodes)
    /\ hidx' = 1
    /\ aidx' = 1
    /\ pc' = "loop"
    /\ UNCHANGED <<nodes, n_roots, track_id, WHITE, calls, prev_edges, prev_annotations>>

\* lines 97-147: one iteration of `while queue`
Dequeue ==
    /\ UNCHANGED layer
    /\ pc = "loop"
    /\ queue # <<>>
    /\ LET node == Head(queue)
           y    == Head(y_pos)
           es   == Append(edges, MainEdge(node, y))
           an   == annotations \o RootAnnotations(node, y) \o LeafAnnotations(node, y)
           children == ResolveChildren(nodes, node)
           st0  == [marked |-> marked, queue |-> Tail(queue), y_pos |-> Tail(y_pos),
                    annotations |-> an,
                    y_mod |-> SpreadOffsets(max_depth_mod, node, Len(children))]
           st   == IF node.is_leaf THEN st0
                   ELSE ChildLoop(children, 1, y, es, merges, st0)
       IN  /\ edges' = es
           /\ annotations' = st.annotations
           /\ queue' = st.queue
           /\ y_pos' = st.y_pos
           /\ marked' = st.marked
    /\ nodes' = NodesAfterPop(nodes)
    /\ UNCHANGED <<n_roots, track_id, pc, max_depth_mod, merges, hidx, aidx, WHITE,
                   calls, prev_edges, prev_annotations>>

\* line 97: the queue is empty, the traversal ends
EndLoop ==
    /\ UNCHANGED layer
    /\ pc = "loop"
    /\ queue = <<>>
    /\ pc' = "hyper"
    /\ hidx' = 1
    /\ UNCHANGED <<nodes, n_roots, track_id, queue, marked, y_pos, max_depth_mod,
                   merges, edges, annotations, aidx, WHITE, calls,
                   prev_edges, prev_annotations>>

\* mutant: only the first child identity is looked for
IsChildEdgeFirstOnly(e, children) == children # <<>> /\ e.track_id = children[1]

\* e.node is truthy
HasNode(e) == e.node # NoneNode

\* e.track_id in children
IsChildEdge(e, children) == e.track_id \in Range(children)

\* Edge(y=(hyperedge.y[-1], childedge.y[0]), x=(hyperedge.x[-1], childedge.x[0]))
Connector(hyperedge, childedge) ==
    Edge(<<hyperedge.x[2], childedge.x[1]>>, <<hyperedge.y[2], childedge.y[1]>>,
         NoneId, NoneNode)

\* lines 154-161: the lazy filter walks the list the loop body appends to
RECURSIVE ChildEdgeScan(_, _, _)
ChildEdgeScan(es, hyperedge, j) ==
    IF j > Len(es) THEN es
    ELSE IF IsChildEdge(es[j], hyperedge.node.children)
         THEN ChildEdgeScan(Append(es, Connector(hyperedge, es[j])), hyperedge, j + 1)
         ELSE ChildEdgeScan(es, hyperedge, j + 1)

\* lines 150-161: one element of the outer lazy filter over edges
HyperStep ==
    /\ UNCHANGED layer
    /\ pc = "hyper"
    /\ hidx <= Len(edges)
    /\ edges' = IF HasNode(edges[hidx])
                THEN ChildEdgeScan(edges, edges[hidx], 1)
                ELSE edges
    /\ hidx' = hidx + 1
    /\ UNCHANGED <<nodes, n_roots, track_id, pc, queue, marked, y_pos, max_depth_mod,
                   merges, annotations, aidx, WHITE, calls, prev_edges, prev_annotations>>

\* line 163: return edges, annotations
Return ==
    /\ UNCHANGED layer
    /\ pc = "hyper"
    /\ hidx > Len(edges)
    /\ pc' = "done"
    /\ calls' = calls + 1
    /\ UNCHANGED <<nodes, n_roots, track_id, queue, marked, y_pos, max_depth_mod,
                   merges, edges, annotations, hidx, aidx, WHITE,
                   prev_edges, prev_annotations>>

\* a second invocation on the same node list and n_roots
CallAgain ==
    /\ UNCHANGED layer
    /\ pc = "done"
    /\ track_id = NoneId
    /\ calls < MaxCalls
    /\ prev_edges' = edges
    /\ prev_annotations' = annotations
    /\ pc' = "call"
    /\ UNCHANGED <<nodes, n_roots, track_id, queue, marked, y_pos, max_depth_mod,
                   merges, edges, annotations, hidx, aidx, WHITE, calls>>

Next == Raise \/ Call \/ Dequeue \/ EndLoop \/ HyperStep \/ Return \/ CallAgain

Spec == Init /\ [][Next]_vars

(***************************************************************************)
(* Vocabulary of the properties.                                           *)
(***************************************************************************)
MainEdges(es) == SelectSeq(es, HasNode)

HyperEdges(es) == LET isHyper(e) == ~HasNode(e) IN SelectSeq(es, isHyper)

Count(s, P(_)) == Cardinality({i \in DOMAIN s : P(s[i])})

NodeIds == {nodes[i].ID : i \in DOMAIN nodes}

ListedAsChild(id) == \E i \in DOMAIN nodes : id \in Range(nodes[i].children)

RECURSIVE ReachableFrom(_)
ReachableFrom(S) ==
    LET T == S \cup {id \in NodeIds :
                        \E i \in DOMAIN nodes :
                            nodes[i].ID \in S /\ id \in Range(nodes[i].children)}
    IN  IF T = S THEN S ELSE ReachableFrom(T)

\* the first n_roots elements are exactly the roots
RootsArePrefix ==
    /\ n_roots >= 1
    /\ n_roots <= Len(nodes)
    /\ \A i \in DOMAIN nodes : (i <= n_roots) <=> ~ListedAsChild(nodes[i].ID)

\* the preconditions of layout_tree
Preconditions ==
    /\ nodes # <<>>
    /\ RootsArePrefix
    /\ \A i, j \in DOMAIN nodes : nodes[i].ID = nodes[j].ID => i = j
    /\ \A i \in DOMAIN nodes : nodes[i].is_root <=> ~ListedAsChild(nodes[i].ID)
    /\ \A i \in DOMAIN nodes : nodes[i].is_leaf <=> nodes[i].children = <<>>
    /\ ReachableFrom({nodes[i].ID : i \in 1..n_roots}) = NodeIds

MainEdgesOf(id) == {i \in DOMAIN edges : HasNode(edges[i]) /\ edges[i].track_id = id}

LaneOf(id) == edges[CHOOSE i \in MainEdgesOf(id) : TRUE].y[1]

TimesOverlap(e, f) == e.x[1] <= f.x[2] /\ f.x[1] <= e.x[2]

\* C1: on input satisfying the preconditions no node gets a second main edge
\* (no node is dequeued twice), and the returned edge list holds exactly one
\* main edge per node, merge nodes included.
C1_OneMainEdgePerNode ==
    Preconditions =>
        /\ \A i \in DOMAIN nodes : Cardinality(MainEdgesOf(nodes[i].ID)) <= 1
        /\ pc = "done" =>
              /\ Len(MainEdges(edges)) = Len(nodes)
              /\ \A i \in DOMAIN nodes : Cardinality(MainEdgesOf(nodes[i].ID)) = 1

C1_Witness ==
    /\ pc = "done"
    /\ Preconditions
    /\ DOMAIN merges # {}
    /\ Len(MainEdges(edges)) = Len(nodes)
    /\ Len(nodes) >= 3

\* C2: on input satisfying the preconditions no two distinct nodes whose time
\* extents intersect are assigned the same lane.
C2_LanesDoNotOverlap ==
    (Preconditions /\ pc = "done") =>
        \A i, j \in DOMAIN edges :
            (/\ i # j
             /\ HasNode(edges[i]) /\ HasNode(edges[j])
             /\ TimesOverlap(edges[i], edges[j]))
            => edges[i].y[1] # edges[j].y[1]

C2_Witness ==
    /\ pc = "done"
    /\ Preconditions
    /\ \E i, j \in DOMAIN edges :
          /\ i # j
          /\ HasNode(edges[i]) /\ HasNode(edges[j])
          /\ TimesOverlap(edges[i], edges[j])

\* the merge scenario: two roots R1, R2 that both list the one leaf child M
TwoRootMerge ==
    /\ Len(nodes) = 3
    /\ n_roots = 2
    /\ nodes[1].children = <<nodes[3].ID>>
    /\ nodes[2].children = <<nodes[3].ID>>
    /\ nodes[3].children = <<>>

IsEnqueued(id) == \E i \in DOMAIN queue : queue[i].ID = id

\* C3: in the two-root merge scenario M's lane is the mean of R1's and R2's
\* lanes, M is enqueued only once both R1 and R2 have their main edges, and M
\* is enqueued exactly once.
C3_MergeLaneIsParentMean ==
    TwoRootMerge =>
        /\ IsEnqueued(nodes[3].ID) =>
              /\ MainEdgesOf(nodes[1].ID) # {}
              /\ MainEdgesOf(nodes[2].ID) # {}
        /\ pc = "done" =>
              /\ Cardinality(MainEdgesOf(nodes[3].ID)) = 1
              /\ LaneOf(nodes[3].ID) =
                    mean(<<LaneOf(nodes[1].ID), LaneOf(nodes[2].ID)>>)

\* number of the child identities of node n that are the track identity of
\* some emitted main edge
EmittedChildren(n) ==
    Cardinality({k \in DOMAIN n.children : MainEdgesOf(n.children[k]) # {}})

ExpectedHyperEdges ==
    LET withEdge == {i \in DOMAIN nodes : MainEdgesOf(nodes[i].ID) # {}}
        F[i \in 0..Len(nodes)] ==
            IF i = 0 THEN 0
            ELSE F[i - 1] + (IF i \in withEdge THEN EmittedChildren(nodes[i]) ELSE 0)
    IN  F[Len(nodes)]

\* hyperedges that end at the start of the main edge of id
HyperEdgesInto(id) ==
    {i \in DOMAIN edges :
        /\ ~HasNode(edges[i])
        /\ edges[i].x[2] = edges[CHOOSE k \in MainEdgesOf(id) : TRUE].x[1]
        /\ edges[i].y[2] = LaneOf(id)}

\* no other main edge starts at the point where the main edge of id starts
StartIsOwn(id) ==
    \A i \in DOMAIN edges :
        (HasNode(edges[i]) /\ edges[i].track_id # id) =>
            ~(/\ edges[i].x[1] = edges[CHOOSE k \in MainEdgesOf(id) : TRUE].x[1]
              /\ edges[i].y[1] = LaneOf(id))

ParentsWithEdge(id) ==
    {i \in DOMAIN nodes : id \in Range(nodes[i].children) /\ MainEdgesOf(nodes[i].ID) # {}}

AnnotationsOf(id, kind) ==
    {i \in DOMAIN annotations :
        annotations[i].label = str(id) /\ annotations[i].kind = kind}

\* C5: on input satisfying the preconditions each of the first n_roots nodes
\* has exactly one start annotation, at its first time sample and at the
\* lane of its single main edge.
C5_RootAnnotation ==
    (Preconditions /\ pc = "done") =>
        \A i \in 1..n_roots :
            /\ Cardinality(MainEdgesOf(nodes[i].ID)) = 1
            /\ Cardinality(AnnotationsOf(nodes[i].ID, "root")) = 1
            /\ \A a \in AnnotationsOf(nodes[i].ID, "root") :
                  /\ annotations[a].x = RInt(nodes[i].t[1])
                  /\ annotations[a].y = LaneOf(nodes[i].ID)

C5_Witness ==
    /\ pc = "done"
    /\ Preconditions
    /\ n_roots >= 2
    /\ Cardinality(AnnotationsOf(nodes[2].ID, "root")) = 1

\* C6: on input satisfying the preconditions every leaf has exactly one end
\* annotation, at its last time sample and at the lane of its main edge, and
\* the step that dequeues a leaf enqueues nothing.
C6_LeafAnnotation ==
    /\ [](( Preconditions /\ pc = "done") =>
            \A i \in DOMAIN nodes :
                nodes[i].is_leaf =>
                    /\ Cardinality(AnnotationsOf(nodes[i].ID, "leaf")) = 1
                    /\ \A a \in AnnotationsOf(nodes[i].ID, "leaf") :
                          /\ annotations[a].x = RInt(nodes[i].t[Len(nodes[i].t)])
                          /\ annotations[a].y = LaneOf(nodes[i].ID))
    /\ [][(Preconditions /\ pc = "loop" /\ queue # <<>> /\ Head(queue).is_leaf) =>
            /\ queue' = Tail(queue)
            /\ y_pos' = Tail(y_pos)
            /\ marked' = marked]_vars

C6_Witness ==
    /\ pc = "done"
    /\ Preconditions
    /\ Len(nodes) >= 3
    /\ \E i \in DOMAIN nodes :
          /\ nodes[i].is_leaf
          /\ ~nodes[i].is_root
          /\ Cardinality(AnnotationsOf(nodes[i].ID, "leaf")) = 1

\* the coordinates of the records, without their colours
EdgeCoords(es) ==
    [i \in DOMAIN es |-> <<es[i].x, es[i].y, es[i].track_id>>]

AnnotationCoords(as) ==
    [i \in DOMAIN as |-> <<as[i].x, as[i].y, as[i].label>>]

SELECTED_ALPHA == RInt(1)

UNSELECTED_ALPHA == Rat(1, 4)

\* the colormaps and the colour-by attributes a tracks layer is given
Colormaps == {"turbo", "viridis"}

ColorByAttributes == {"track_id", "generation"}

\* the value of the colour-by attribute of a track
PropertyOf(id) ==
    IF color_by = "generation"
    THEN LET i == CHOOSE i \in DOMAIN nodes : nodes[i].ID = id IN nodes[i].generation
    ELSE id

\* tracks.track_colors[np.where(properties["track_id"] == id)][-1, :]: the
\* colormap applied to the colour-by attribute of the track
track_colors(id) ==
    IF colormap = "turbo"
    THEN <<RInt(PropertyOf(id) % 2), RInt(1), RInt(0), RInt(1)>>
    ELSE <<Rat(1, 2), RInt(0), Rat(1 + (PropertyOf(id) % 2), 2), RInt(1)>>

\* the value a colour attribute reads
ColorOf(rec) == IF rec.color.ref = "WHITE" THEN WHITE ELSE rec.color.rgba

\* plot_branches: an edge with a track identity gets an array of its own
BranchColor(e) ==
    IF e.track_id # NoneId THEN OwnColor(track_colors(e.track_id)) ELSE e.color

\* 1 if a.label == str(track_id) else 0.25
LabelAlpha(a, tid) == IF a.label = str(tid) THEN SELECTED_ALPHA ELSE UNSELECTED_ALPHA

\* a.color[3] = alpha: an assignment into the array a.color refers to
SetAlpha(white, as, i, alpha) ==
    IF as[i].color.ref = "WHITE"
    THEN [w |-> [white EXCEPT ![4] = alpha], as |-> as]
    ELSE [w |-> white,
          as |-> [as EXCEPT ![i].color.rgba = [as[i].color.rgba EXCEPT ![4] = alpha]]]

\* draw_tree is called for a track of the subgraph
InitPlot ==
    /\ colormap = "turbo"
    /\ color_by = "track_id"
    /\ \E inp \in WellFormedInputs :
          /\ nodes = inp.nodes
          /\ n_roots = inp.n_roots
          /\ \E i \in DOMAIN inp.nodes : track_id = inp.nodes[i].ID
    /\ pc = "call"
    /\ queue = <<>>
    /\ marked = <<>>
    /\ y_pos = <<>>
    /\ max_depth_mod = RInt(0)
    /\ merges = <<>>
    /\ edges = <<>>
    /\ annotations = <<>>
    /\ hidx = 1
    /\ aidx = 1
    /\ WHITE = WHITE_INIT
    /\ calls = 0
    /\ prev_edges = <<>>
    /\ prev_annotations = <<>>

\* lines 45-49: the layout has returned; set_title, then plot_branches
PlotBranches ==
    /\ UNCHANGED layer
    /\ pc = "done"
    /\ track_id # NoneId
    /\ edges' = [i \in DOMAIN edges |-> [edges[i] EXCEPT !.color = BranchColor(edges[i])]]
    /\ aidx' = 1
    /\ pc' = "labels"
    /\ UNCHANGED <<nodes, n_roots, track_id, queue, marked, y_pos, max_depth_mod,
                   merges, annotations, hidx, WHITE, calls, prev_edges, prev_annotations>>

\* lines 52-56: one iteration of the loop over self.annotations
LabelStep ==
    /\ UNCHANGED layer
    /\ pc = "labels"
    /\ aidx <= Len(annotations)
    /\ LET r == SetAlpha(WHITE, annotations, aidx,
                         LabelAlpha(annotations[aidx], track_id))
       IN  /\ WHITE' = r.w
           /\ annotations' = r.as
    /\ aidx' = aidx + 1
    /\ UNCHANGED <<nodes, n_roots, track_id, pc, queue, marked, y_pos, max_depth_mod,
                   merges, edges, hidx, calls, prev_edges, prev_annotations>>

\* the loop over the annotations is through: draw_tree returns
EndDraw ==
    /\ UNCHANGED layer
    /\ pc = "labels"
    /\ aidx > Len(annotations)
    /\ pc' = "drawn"
    /\ UNCHANGED <<nodes, n_roots, track_id, queue, marked, y_pos, max_depth_mod,
                   merges, edges, annotations, hidx, aidx, WHITE, calls,
                   prev_edges, prev_annotations>>

\* the user selects another track of the same tree: draw_tree is called again
DrawAgain ==
    /\ UNCHANGED layer
    /\ pc = "drawn"
    /\ calls < MaxCalls
    /\ \E i \in DOMAIN nodes : track_id' = nodes[i].ID
    /\ prev_edges' = edges
    /\ prev_annotations' = annotations
    /\ pc' = "call"
    /\ UNCHANGED <<nodes, n_roots, queue, marked, y_pos, max_depth_mod,
                   merges, edges, annotations, hidx, aidx, WHITE, calls>>

\* plugin.py, _get_tracks_layers: the callbacks connected to an event of a
\* tracks layer; only color_by is connected, to draw_graph
CallbacksOf(event) == IF event = "color_by" THEN <<"draw_graph">> ELSE <<>>

\* the plotted edges after the callbacks of an event have run: draw_graph
\* is called with the event alone, without its keyword-only track_id, so
\* the call fails before it touches the edges
EdgesAfterEvent(es, event) == es

\* the user sets layer.colormap
SetColormap ==
    /\ pc = "drawn"
    /\ \E c \in Colormaps \ {colormap} : colormap' = c
    /\ edges' = EdgesAfterEvent(edges, "colormap")
    /\ UNCHANGED <<nodes, n_roots, track_id, pc, queue, marked, y_pos, max_depth_mod,
                   merges, annotations, hidx, aidx, WHITE, calls,
                   prev_edges, prev_annotations, color_by>>

\* the user sets layer.color_by
SetColorBy ==
    /\ pc = "drawn"
    /\ \E a \in ColorByAttributes \ {color_by} : color_by' = a
    /\ edges' = EdgesAfterEvent(edges, "color_by")
    /\ UNCHANGED <<nodes, n_roots, track_id, pc, queue, marked, y_pos, max_depth_mod,
                   merges, annotations, hidx, aidx, WHITE, calls,
                   prev_edges, prev_annotations, colormap>>

NextPlot ==
    \/ Call \/ Dequeue \/ EndLoop \/ HyperStep \/ Return
    \/ PlotBranches \/ LabelStep \/ EndDraw \/ DrawAgain
    \/ SetColormap \/ SetColorBy

SpecPlot == InitPlot /\ [][NextPlot]_vars

Alpha(a) == ColorOf(a)[4]

\* C8: when draw_tree(track_id) has gone through all annotations of a tree
\* with at least two annotations, every annotation labelled str(track_id) has
\* alpha 1 and every other annotation has alpha 0.25.
C8_SelectedAlpha ==
    (pc = "drawn" /\ Len(annotations) >= 2) =>
        \A i \in DOMAIN annotations :
            Alpha(annotations[i]) =
                (IF annotations[i].label = str(track_id)
                 THEN SELECTED_ALPHA ELSE UNSELECTED_ALPHA)

\* a call that the layout must refuse
Malformed ==
    \/ n_roots > Len(nodes)
    \/ \E i \in DOMAIN nodes :
          \E k \in DOMAIN nodes[i].children : nodes[i].children[k] \notin NodeIds

\* C9: a call with n_roots greater than the number of nodes, or with a child
\* identity that matches no node, fails: it never returns edges or
\* annotations.
C9_MalformedInputFails ==
    Malformed => pc # "done"

\* the split scenario: root R with samples [0,1,2] and two leaf children,
\* A with samples [3,4] and B with samples [3,4,5], at generation 1
SplitScenario ==
    /\ n_roots = 1
    /\ Len(nodes) = 3
    /\ nodes[1].generation = 0 /\ nodes[1].t = <<0, 1, 2>>
    /\ Range(nodes[1].children) = {nodes[2].ID, nodes[3].ID}
    /\ nodes[2].generation = 1 /\ nodes[2].t = <<3, 4>> /\ nodes[2].children = <<>>
    /\ nodes[3].generation = 1 /\ nodes[3].t = <<3, 4, 5>> /\ nodes[3].children = <<>>

ConnectorsBetween(p, c) ==
    {i \in DOMAIN edges :
        /\ ~HasNode(edges[i])
        /\ edges[i].track_id = NoneId
        /\ edges[i].x = <<p.t[Len(p.t)], c.t[1]>>
        /\ edges[i].y = <<LaneOf(p.ID), LaneOf(c.ID)>>}

\* C10: in the split scenario the layout returns 3 main edges, one root
\* annotation (R), two leaf annotations (A, B) and no other annotation, and
\* 2 hyperedges, R to A and R to B; the lanes of A and B differ and are R's
\* lane minus 8 and R's lane plus 8.
C10_SplitScenario ==
    (SplitScenario /\ pc = "done") =>
        LET R == nodes[1]  A == nodes[2]  B == nodes[3] IN
        /\ Len(MainEdges(edges)) = 3
        /\ \A i \in 1..3 : Cardinality(MainEdgesOf(nodes[i].ID)) = 1
        /\ Len(annotations) = 3
        /\ Cardinality(AnnotationsOf(R.ID, "root")) = 1
        /\ Cardinality(AnnotationsOf(A.ID, "leaf")) = 1
        /\ Cardinality(AnnotationsOf(B.ID, "leaf")) = 1
        /\ Len(HyperEdges(edges)) = 2
        /\ Cardinality(ConnectorsBetween(R, A)) = 1
        /\ Cardinality(ConnectorsBetween(R, B)) = 1
        /\ LaneOf(A.ID) # LaneOf(B.ID)
        /\ {LaneOf(A.ID), LaneOf(B.ID)} =
              {RSub(LaneOf(R.ID), RInt(8)), RAdd(LaneOf(R.ID), RInt(8))}

C10_Witness ==
    /\ SplitScenario
    /\ pc = "done"
    /\ Len(edges) = 5
    /\ LaneOf(nodes[2].ID) # LaneOf(nodes[3].ID)

\* C11: once a tree is drawn, a change of the layer's colormap or color_by
\* is followed, with no further draw_tree call, by an update of the plotted
\* branch colours: whenever the plotter is idle every plotted branch has the
\* layer's current colour of its track.
C11_BranchColorFollowsLayer ==
    pc = "drawn" =>
        \A i \in DOMAIN edges :
            edges[i].track_id # NoneId =>
                ColorOf(edges[i]) = track_colors(edges[i].track_id)

\* C12: in the edge list, at every moment and so in the list returned, no
\* main edge follows a hyperedge (the main edges form a prefix), every
\* hyperedge has neither a track identity nor a node back-reference, and
\* every main edge has both.
C12_HyperEdgesAfterMainEdges ==
    /\ \A i, j \in DOMAIN edges :
          (i < j /\ HasNode(edges[j])) => HasNode(edges[i])
    /\ \A i \in DOMAIN edges :
          /\ edges[i].node = NoneNode <=> edges[i].track_id = NoneId
          /\ edges[i].node # NoneNode => edges[i].track_id = edges[i].node.ID
    /\ pc = "done" =>
          edges = MainEdges(edges) \o HyperEdges(edges)

C12_Witness ==
    /\ pc = "done"
    /\ Len(MainEdges(edges)) >= 3
    /\ Len(HyperEdges(edges)) >= 2
    /\ HasNode(edges[1])
    /\ ~HasNode(edges[Len(edges)])

\* the children enqueued by the step: the last k nodes of the new queue
NewlyEnqueued == Len(queue') - (Len(queue) - 1)

\* C13: when a merge child is enqueued, the lane appended for it is the mean
\* of the lanes of the main edges emitted so far for its recorded
\* merge-parents, the edge of the node being processed among them, whatever
\* the child's position among its siblings.
C13_MergeLaneIsMeanOfEmitted ==
    [][(pc = "loop" /\ queue # <<>>) =>
          \A j \in 1..NewlyEnqueued :
              LET child == queue'[Len(queue') - NewlyEnqueued + j]
                  lane  == y_pos'[Len(y_pos') - NewlyEnqueued + j]
                  pe    == IF child.ID \in DOMAIN merges
                           THEN ParentEdges(edges', merges[child.ID])
                           ELSE <<>>
              IN  child.ID \in DOMAIN merges =>
                      /\ \E i \in DOMAIN pe : pe[i] = edges'[Len(edges')]
                      /\ lane = mean([i \in DOMAIN pe |-> pe[i].y[1]])]_vars

\* a merge child enqueued as the second of its siblings, at the lane of the
\* parent just processed and not at the spread position of a second child
C13_Witness ==
    /\ pc = "loop"
    /\ edges # <<>>
    /\ queue # <<>>
    /\ HasNode(edges[Len(edges)])
    /\ LET p  == edges[Len(edges)].node
           ch == ResolveChildren(nodes, p)
       IN  /\ Len(ch) >= 2
           /\ ch[2].ID \in DOMAIN merges
           /\ queue[Len(queue)] = ch[2]
           /\ y_pos[Len(y_pos)] = edges[Len(edges)].y[1]
           /\ SpreadOffsets(max_depth_mod, p, Len(ch))[2] # RInt(0)

\* the position of a node among the resolved children of its parent
ChildIndex(p, c) == CHOOSE idx \in DOMAIN ResolveChildren(nodes, p) :
                        ResolveChildren(nodes, p)[idx] = c

\* C14: on input satisfying the preconditions every child that is not a merge
\* point has the lane y + s[idx] of its parent's lane y and the even spread s
\* over the parent's resolved children, also when an earlier sibling is a
\* merge point.
C14_NonMergeChildLane ==
    (Preconditions /\ pc = "done") =>
        \A i, j \in DOMAIN nodes :
            LET p  == nodes[i]
                c  == nodes[j]
                ch == ResolveChildren(nodes, p)
            IN  (c.ID \in Range(p.children) /\ c.ID \notin DOMAIN merges) =>
                    LaneOf(c.ID) =
                        RAdd(LaneOf(p.ID),
                             SpreadOffsets(max_depth_mod, p, Len(ch))[ChildIndex(p, c)])

NodeIndex(c) == CHOOSE i \in DOMAIN nodes : nodes[i] = c

\* the children of p that are nodes of the input
KidsOf(p) == {c \in Range(nodes) : c.ID \in Range(p.children)}

\* the rank of child c of p when the children are taken in node-list order
NodeListRank(p, c) == Cardinality({d \in KidsOf(p) : NodeIndex(d) <= NodeIndex(c)})

\* the position of an identity in the child list of p
ChildListPos(p, id) == CHOOSE i \in DOMAIN p.children : p.children[i] = id

\* the rank of child c of p when the children are taken in child-list order
ChildListRank(p, c) ==
    Cardinality({d \in KidsOf(p) : ChildListPos(p, d.ID) <= ChildListPos(p, c.ID)})

\* the j-th child enqueued by the step and the lane appended for it
Enqueued(j) == queue'[Len(queue') - NewlyEnqueued + j]

EnqueuedLane(j) == y_pos'[Len(y_pos') - NewlyEnqueued + j]

\* the step enqueues exactly the unmarked children of the dequeued node, in
\* the order given by rank, each non-merge family at the spread position of
\* its rank
EnqueuesInOrder(rank(_, _)) ==
    (pc = "loop" /\ queue # <<>>) =>
        LET p == Head(queue)
            y == Head(y_pos)
        IN  /\ {Enqueued(j) : j \in 1..NewlyEnqueued}
                  = {c \in KidsOf(p) : c \notin Range(marked)}
            /\ \A j, l \in 1..NewlyEnqueued :
                  j < l => rank(p, Enqueued(j)) < rank(p, Enqueued(l))
            /\ (\A c \in KidsOf(p) : c.ID \notin DOMAIN merges) =>
                  \A j \in 1..NewlyEnqueued :
                      EnqueuedLane(j) =
                          RAdd(y, SpreadOffsets(max_depth_mod, p, Cardinality(KidsOf(p)))
                                      [rank(p, Enqueued(j))])

\* C15 as stated: the children of a dequeued node are examined, given their
\* spread positions and enqueued in the order of that node's child list,
\* whatever the order of the input node list.
C15_ChildListOrder == [][EnqueuesInOrder(ChildListRank)]_vars

\* C15 amended: the children of a dequeued node are examined, given their
\* spread positions and enqueued in the order in which they appear in the
\* input node list, whatever the order of that node's child list.
C15_NodeListOrder == [][EnqueuesInOrder(NodeListRank)]_vars

\* two children just enqueued, the one listed second in the child list first
C15_Witness ==
    /\ pc = "loop"
    /\ edges # <<>>
    /\ Len(queue) >= 2
    /\ HasNode(edges[Len(edges)])
    /\ LET p == edges[Len(edges)].node
           a == queue[Len(queue) - 1]
           b == queue[Len(queue)]
       IN  /\ p.children = <<b.ID, a.ID>>
           /\ NodeIndex(a) < NodeIndex(b)
           /\ y_pos[Len(y_pos) - 1] # y_pos[Len(y_pos)]

\* C16: in any sequence of draw_tree calls every edge and annotation has the
\* default colour opaque white when layout returns, and while draw_tree sets
\* the alphas of the annotations one by one, the annotations not yet reached
\* and the edges left uncoloured by plot_branches still have it: no colour
\* is shared between records or kept from an earlier call.
C16_FreshDefaultColour ==
    /\ pc = "done" =>
          /\ \A i \in DOMAIN edges : ColorOf(edges[i]) = WHITE_INIT
          /\ \A i \in DOMAIN annotations : ColorOf(annotations[i]) = WHITE_INIT
    /\ pc = "labels" =>
          /\ \A i \in DOMAIN edges :
                edges[i].track_id = NoneId => ColorOf(edges[i]) = WHITE_INIT
          /\ \A i \in DOMAIN annotations :
                i >= aidx => ColorOf(annotations[i]) = WHITE_INIT

\* the annotations appended by the step
NewAnnotations == SubSeq(annotations', Len(annotations) + 1, Len(annotations'))

\* C17: a step that enqueues a child emits exactly one annotation for it, at
\* the child's temporal midpoint and at the lane appended for the child,
\* when the child is not a leaf, and none when it is a leaf; so on input
\* satisfying the preconditions every non-root non-leaf node ends with
\* exactly one annotation, at the lane of its main edge, and every non-root
\* leaf with no midpoint annotation.
C17_MidpointAnnotation ==
    /\ [][(pc = "loop" /\ queue # <<>>) =>
            LET mids == SelectSeq(NewAnnotations, LAMBDA a : a.kind = "mid")
                big  == {j \in 1..NewlyEnqueued : ~Enqueued(j).is_leaf}
            IN  /\ Len(mids) = Cardinality(big)
                /\ \A j \in big :
                      LET k == Cardinality({l \in big : l <= j})
                      IN  mids[k] = Annotation(MidTime(Enqueued(j).t), EnqueuedLane(j),
                                               str(Enqueued(j).ID), "mid")]_vars
    /\ [](( Preconditions /\ pc = "done") =>
            \A i \in DOMAIN nodes :
                ~nodes[i].is_root =>
                    LET all == {k \in DOMAIN annotations :
                                   annotations[k].label = str(nodes[i].ID)}
                        mid == AnnotationsOf(nodes[i].ID, "mid")
                    IN  IF nodes[i].is_leaf
                        THEN mid = {}
                        ELSE /\ all = mid
                             /\ Cardinality(mid) = 1
                             /\ \A k \in mid :
                                   /\ annotations[k].y = LaneOf(nodes[i].ID)
                                   /\ annotations[k].x = MidTime(nodes[i].t))

C17_Witness ==
    /\ Preconditions
    /\ pc = "done"
    /\ \E i, j \in DOMAIN nodes :
          /\ ~nodes[i].is_root /\ ~nodes[i].is_leaf
          /\ Cardinality(AnnotationsOf(nodes[i].ID, "mid")) = 1
          /\ LaneOf(nodes[i].ID) # RInt(0)
          /\ ~nodes[j].is_root /\ nodes[j].is_leaf
          /\ AnnotationsOf(nodes[j].ID, "mid") = {}

(***************************************************************************)
(* Termination of layout_tree, also on node lists whose child links form   *)
(* a cycle.                                                                *)
(***************************************************************************)
\* a forest with one added child link from a node to itself or to a node
\* standing before it in the list, a root included; generation, time samples
\* and flags are those of the forest
BuildCyclicNodes(kids, back) ==
    LET base == BuildNodes(kids, FALSE, 0)
    IN  [i \in DOMAIN kids |->
            IF i = back[1]
            THEN TreeNode(base[i].ID, base[i].t, base[i].generation,
                          Append(base[i].children, IdOf(back[2])), base[i].is_root)
            ELSE base[i]]

CyclicInputs ==
    {[nodes |-> BuildCyclicNodes(x[1], x[2]), n_roots |-> Cardinality(RootsOf(x[1]))] :
        x \in UNION {Shapes(n) \X {b \in (1..n) \X (1..n) : b[2] <= b[1]} :
                        n \in 1..MaxNodes}}

InitTerm ==
    /\ colormap = "turbo"
    /\ color_by = "track_id"
    /\ \E inp \in (Inputs \ {EmptyInput}) \cup CyclicInputs :
          nodes = inp.nodes /\ n_roots = inp.n_roots
    /\ track_id = NoneId
    /\ pc = "call"
    /\ queue = <<>>
    /\ marked = <<>>
    /\ y_pos = <<>>
    /\ max_depth_mod = RInt(0)
    /\ merges = <<>>
    /\ edges = <<>>
    /\ annotations = <<>>
    /\ hidx = 1
    /\ aidx = 1
    /\ WHITE = WHITE_INIT
    /\ calls = 0
    /\ prev_edges = <<>>
    /\ prev_annotations = <<>>

\* one call of layout_tree
NextTerm == Call \/ Dequeue \/ EndLoop \/ HyperStep \/ Return

\* layout_tree is sequential code without suspension points: a call that
\* can take a step takes it
SpecTerm == InitTerm /\ [][NextTerm]_vars /\ WF_vars(NextTerm)

\* a node that is reached again from one of its own children
OnCycle(id) ==
    \E i \in DOMAIN nodes :
        /\ nodes[i].ID = id
        /\ id \in ReachableFrom(Range(nodes[i].children) \cap NodeIds)

\* each node is enqueued at most twice (as a seed and as a child), and no
\* hyperedge is taken for a parent edge or a child edge
BoundedWork ==
    /\ \A i \in DOMAIN nodes : Cardinality(MainEdgesOf(nodes[i].ID)) <= 2
    /\ Len(queue) <= 2 * Len(nodes)
    /\ \A i \in DOMAIN edges :
          ~HasNode(edges[i]) =>
              \A j \in DOMAIN nodes : ~IsChildEdge(edges[i], nodes[j].children)
    /\ Len(HyperEdges(edges)) <= Len(MainEdges(edges)) * Len(MainEdges(edges))

\* nodes not yet marked plus nodes waiting in the queue
LoopWork == Cardinality({c \in Range(nodes) : c \notin Range(marked)}) + Len(queue)

\* edges the hyperedge pass still has to visit, the parent edges among them
\* weighted by the number of connectors one of them can append
HyperWork ==
    LET mainLeft == Cardinality({i \in hidx..Len(edges) : HasNode(edges[i])})
    IN  mainLeft * (Len(MainEdges(edges)) + 1) + (Len(edges) - hidx + 1)

\* an upper bound of HyperWork when the traversal ends
HyperWorkBound == 2 * Len(nodes) * (2 * Len(nodes) + 1) + 2 * Len(nodes)

\* the number of steps the call can still take is at most Variant
Variant ==
    CASE pc = "call"  -> HyperWorkBound + 2 * Len(nodes) + 3
      [] pc = "loop"  -> HyperWorkBound + LoopWork + 2
      [] pc = "hyper" -> HyperWork + 1
      [] OTHER        -> 0

\* a call that has not returned can take its next step
CanStep ==
    /\ pc # "error"
    /\ pc = "call" => nodes # <<>>
    /\ pc = "loop" => Len(y_pos) >= Len(queue)
    /\ pc = "hyper" => hidx >= 1

\* C18: layout_tree returns on every non-empty node list with n_roots >= 1,
\* lists whose child links form a cycle or lead back to a root included:
\* every node is enqueued a bounded number of times, the queue empties, and
\* the hyperedge pass ends because an appended hyperedge is neither a parent
\* edge nor a child edge.  A call that has not returned can always take its
\* next step, and every step lowers a natural-number bound on the steps
\* left, so under the fairness of SpecTerm the call reaches its return.
C18_Terminates ==
    /\ [](BoundedWork /\ CanStep /\ Variant >= 0)
    /\ [][Variant' < Variant]_vars

C18_Witness ==
    /\ pc = "done"
    /\ \E i \in DOMAIN nodes : nodes[i].is_root /\ OnCycle(nodes[i].ID)
    /\ \E i \in DOMAIN nodes : ~nodes[i].is_root /\ OnCycle(nodes[i].ID)
    /\ Len(HyperEdges(edges)) >= 2

\* C19: on input satisfying the preconditions, whenever a merge child is
\* examined in the child loop at least one of its recorded merge-parents,
\* the node being processed, already has a main edge, so the skip branch is
\* never taken, and at return every merge child has its main edge.
C19_MergeNeverSkipped ==
    /\ [][(Preconditions /\ pc = "loop" /\ queue # <<>>) =>
            \A c \in KidsOf(Head(queue)) :
                c.ID \in DOMAIN merges =>
                    LET pe == ParentEdges(edges', merges[c.ID])
                    IN  /\ ~SkipMerge(pe)
                        /\ \E i \in DOMAIN pe : pe[i].node = Head(queue)
                        /\ c \in Range(marked')]_vars
    /\ []((Preconditions /\ pc = "done") =>
            \A id \in DOMAIN merges :
                id \in NodeIds => Cardinality(MainEdgesOf(id)) = 1)

\* a merge child with three parents, examined three times, has its main edge
C19_Witness ==
    /\ Preconditions
    /\ pc = "done"
    /\ \E id \in DOMAIN merges :
          /\ Len(merges[id]) >= 3
          /\ Cardinality(MainEdgesOf(id)) = 1
          /\ Cardinality(HyperEdgesInto(id)) >= 3

\* C20: layout_tree leaves its input unchanged: no step changes the node
\* list (the roots stay in it although the queue seeded from them is
\* popped), and the nodes held by the queue, the marked list and the main
\* edges are the unmodified nodes of the list.
C20_InputUnchanged ==
    /\ [][nodes' = nodes /\ n_roots' = n_roots]_vars
    /\ [](/\ Range(queue) \subseteq Range(nodes)
          /\ Range(marked) \subseteq Range(nodes)
          /\ \A i \in DOMAIN edges :
                HasNode(edges[i]) => edges[i].node \in Range(nodes))

\* a second call has returned, the queue is empty and the roots are still
\* the first n_roots nodes of the list
C20_Witness ==
    /\ pc = "done"
    /\ calls = 2
    /\ queue = <<>>
    /\ n_roots >= 2
    /\ Len(nodes) >= 3
    /\ \A i \in DOMAIN nodes : nodes[i].is_root <=> i <= n_roots
    /\ \A i \in 1..n_roots : Cardinality(MainEdgesOf(nodes[i].ID)) = 1

====
